---------------------------- MODULE Spec2Model ----------------------------
(***************************************************************************)
(* Model of the client-side data pipeline of the URL Classifier Exceptions *)
(* dashboard: the App element (src/src/app.ts) with its refresh cycles,    *)
(* the bug-metadata fetch, the version filter and the filter-expression    *)
(* evaluation (src/src/filter-expression/filter-expression.ts).            *)
(***************************************************************************)
EXTENDS Integers, Sequences, FiniteSets, TLC

(***************************************************************************)
(* Bounds of the model.                                                    *)
(***************************************************************************)
\* Number of handler invocations (init, settings changes) in one behaviour.
MaxTasks == 2
\* Longest record list a records response carries.
MaxRecords == 2
\* Longest bugs array a Bugzilla response carries.
MaxBugs == 2

(***************************************************************************)
(* Values.                                                                 *)
(***************************************************************************)
\* JavaScript null / undefined for string-valued fields.
Null == "<null>"
Undefined == "<undefined>"
\* A record whose bugIds field is null or undefined.
NoBugIds == <<-1>>

RSEnvironments == {"prod", "stage", "dev"}
Channels == {"nightly", "beta", "release"}

\* Bug ids known to the bug tracker.
BugIdUniverse == {1, 2}

(***************************************************************************)
(* Filter expressions.  The expressions that occur in the modelled record  *)
(* pool; evaluateFilterExpression gives the settled value of jexl.eval.    *)
(***************************************************************************)
ExprGE2 == "env.version|versionCompare('2') >= 0"
ExprNoArg == "env.version|versionCompare >= 0"
ExprVersion == "env.version"
ExprLT3 == "env.version|versionCompare('3') < 0"

ExprGE100 == "env.version|versionCompare('100') >= 0"
ExprGE9_0 == "env.version|versionCompare('9.0') >= 0"
ExprCompare2 == "env.version|versionCompare('2')"
ExprChannel == "env.channel"
ExprEnv == "env"

\* A version string is the sequence of its characters: the digits 0..9 and
\* the dot.
Dot == 10

\* The parts of a version string between the dots.
RECURSIVE SplitVersion(_)
SplitVersion(s) ==
  IF s = <<>> THEN << <<>> >>
  ELSE LET rest == SplitVersion(Tail(s))
       IN IF Head(s) = Dot THEN << <<>> >> \o rest
          ELSE << <<Head(s)>> \o rest[1] >> \o Tail(rest)

\* The number a part's digits denote; a part without digits is 0.
RECURSIVE PartNumber(_, _)
PartNumber(digits, acc) ==
  IF digits = <<>> THEN acc ELSE PartNumber(Tail(digits), acc * 10 + Head(digits))

RECURSIVE CompareParts(_, _)
CompareParts(a, b) ==
  IF a = <<>> /\ b = <<>> THEN 0
  ELSE LET x == IF a = <<>> THEN 0 ELSE PartNumber(Head(a), 0)
           y == IF b = <<>> THEN 0 ELSE PartNumber(Head(b), 0)
           ra == IF a = <<>> THEN <<>> ELSE Tail(a)
           rb == IF b = <<>> THEN <<>> ELSE Tail(b)
       IN IF x < y THEN -1 ELSE IF x > y THEN 1 ELSE CompareParts(ra, rb)

\* mozCompare of two dotted numeric version strings: -1, 0 or 1.
mozCompare(a, b) == CompareParts(SplitVersion(a), SplitVersion(b))

\* A variant: the operands of the comparison are exchanged.
versionCompareSwapped(value, args) ==
  IF Len(args) < 1
  THEN [ok |-> FALSE, value |-> 0, message |-> "versionCompare requires two arguments"]
  ELSE [ok |-> TRUE, value |-> mozCompare(args[1], value), message |-> ""]

\* A variant: the transform only tells smaller from not smaller.
versionCompareNeverEqual(value, args) ==
  IF Len(args) < 1
  THEN [ok |-> FALSE, value |-> 0, message |-> "versionCompare requires two arguments"]
  ELSE [ok |-> TRUE, value |-> IF mozCompare(value, args[1]) < 0 THEN -1 ELSE 1,
        message |-> ""]

\* The versionCompare transform applied to value with the arguments args.
versionCompare(value, args) ==
  IF Len(args) < 1
  THEN [ok |-> FALSE, value |-> 0, message |-> "versionCompare requires two arguments"]
  ELSE [ok |-> TRUE, value |-> mozCompare(value, args[1]), message |-> ""]

\* The expressions that apply the transform to env.version, the arguments
\* they pass and the relation they apply to the transform's result.
TransformExpressions == {ExprGE2, ExprLT3, ExprNoArg, ExprGE100, ExprGE9_0, ExprCompare2}

TransformArgs(expression) ==
  CASE expression = ExprGE2 -> << <<2>> >>
    [] expression = ExprLT3 -> << <<3>> >>
    [] expression = ExprGE100 -> << <<1, 0, 0>> >>
    [] expression = ExprGE9_0 -> << <<9, Dot, 0>> >>
    [] expression = ExprCompare2 -> << <<2>> >>
    [] expression = ExprNoArg -> <<>>

Relation(expression, n) ==
  IF expression = ExprLT3 THEN n < 0 ELSE n >= 0

NumberResult(n) ==
  CASE n = -1 -> "number -1" [] n = 0 -> "number 0" [] n = 1 -> "number 1"

\* Settled value of jexl.eval(expression, {env: {version}}): "throw" is a
\* rejection, "true" and "false" are the booleans, the other values name
\* the kind of the result.
evaluateFilterExpression(expression, version) ==
  IF expression \in TransformExpressions
  THEN LET r == versionCompare(version, TransformArgs(expression))
       IN IF ~r.ok THEN "throw"
          ELSE IF expression = ExprCompare2 THEN NumberResult(r.value)
          ELSE IF Relation(expression, r.value) THEN "true" ELSE "false"
  ELSE CASE expression = ExprVersion -> "string"
         [] expression = ExprChannel -> "undefined"
         [] expression = ExprEnv -> "object"
         [] OTHER -> "throw"

\* A variant: only an absent expression counts as no expression.
NoExpressionAbsentOnly(filterExpression) ==
  filterExpression = Undefined

\* filterExpression?.length is falsy.
NoExpression(filterExpression) ==
  filterExpression = Undefined \/ filterExpression = ""

\* A variant: result == true, or a truthiness test, in place of result === true.
ResultIsTruthy(result) ==
  result \notin {"false", "undefined", "number 0"}

\* result === true
ResultIsTrue(result) == result = "true"

\* Outcome of versionNumberMatchesFilterExpression: "true", "false" or "throw".
versionNumberMatchesFilterExpression(version, filterExpression) ==
  IF NoExpression(filterExpression) THEN "true"
  ELSE LET result == evaluateFilterExpression(filterExpression, version)
       IN IF result = "throw" THEN "throw"
          ELSE IF ResultIsTrue(result) THEN "true" ELSE "false"

(***************************************************************************)
(* Exception list entries and records responses.                           *)
(***************************************************************************)
Entry(id, bugIds, lastModified, expr) ==
  [id |-> id, bugIds |-> bugIds, last_modified |-> lastModified,
   filter_expression |-> expr]

EntryPlain == Entry(1, <<1>>, 3, Undefined)
EntryGE2 == Entry(2, <<1, 2>>, 2, ExprGE2)
EntryNoArg == Entry(3, <<2>>, 1, ExprNoArg)
EntryNoBugIds == Entry(4, NoBugIds, 2, "")
EntryVersion == Entry(5, <<2>>, 3, ExprVersion)
EntryLT3 == Entry(6, <<1>>, 1, ExprLT3)

RecordPool == {EntryPlain, EntryGE2, EntryNoArg, EntryNoBugIds, EntryVersion, EntryLT3}

RECURSIVE ListsUpTo(_, _)
ListsUpTo(S, n) ==
  IF n = 0 THEN {<<>>}
  ELSE LET shorter == ListsUpTo(S, n - 1)
       IN shorter \cup {Append(l, x) : l \in shorter, x \in S}

Range(s) == {s[i] : i \in DOMAIN s}

\* The record lists of up to MaxRecords distinct entries.
RecordLists ==
  {l \in ListsUpTo(RecordPool, MaxRecords) : Cardinality(Range(l)) = Len(l)}

\* The data array each records endpoint serves; the collections do not
\* change while the page is open.
ServerRecords(env, preview) ==
  CASE env = "prod" /\ ~preview -> <<EntryGE2, EntryPlain>>
    [] env = "prod" /\ preview -> <<EntryPlain, EntryNoArg>>
    [] env = "stage" /\ ~preview -> <<>>
    [] env = "stage" /\ preview -> <<EntryNoBugIds>>
    [] env = "dev" /\ ~preview -> <<EntryLT3, EntryPlain>>
    [] OTHER -> <<EntryVersion, EntryNoBugIds>>

\* Outcome of the fetch of a records endpoint: a network error, a response
\* that is not ok, or the JSON body.
RecordStatuses == {"neterr", "httperr", "ok"}

\* fetchRecords' result for an ok response: json.data.
RecordsResponse(status, env, preview) ==
  [status |-> status,
   data |-> IF status = "ok" THEN ServerRecords(env, preview) ELSE <<>>]

\* Array.prototype.sort with (a, b) => b.last_modified - a.last_modified:
\* a stable sort, most recently modified first.
RECURSIVE InsertByLastModified(_, _)
InsertByLastModified(sorted, r) ==
  IF sorted = <<>> THEN <<r>>
  ELSE IF Head(sorted).last_modified >= r.last_modified
       THEN <<Head(sorted)>> \o InsertByLastModified(Tail(sorted), r)
       ELSE <<r>> \o sorted

\* A variant: the records are left in the order of the response.
SortByLastModifiedSkipped(l) == l

RECURSIVE SortByLastModified(_)
SortByLastModified(l) ==
  IF l = <<>> THEN <<>>
  ELSE InsertByLastModified(SortByLastModified(SubSeq(l, 1, Len(l) - 1)), l[Len(l)])

\* The spot check of updateRecords.
SpotCheckFails(recs) == Len(recs) > 0 /\ recs[1].bugIds = NoBugIds

\* new Set(records.flatMap((record) => record.bugIds || []))
BugIdsOf(recs) ==
  UNION {IF recs[i].bugIds = NoBugIds THEN {} ELSE Range(recs[i].bugIds) : i \in DOMAIN recs}

(***************************************************************************)
(* Bug metadata.                                                           *)
(***************************************************************************)
\* The bug objects the tracker holds: bug 1 is open, bug 2 is closed.
TrackerBug(id) == [id |-> id, is_open |-> (id = 1), summary |-> IF id = 1 THEN "s1" ELSE "s2"]

BugObjects == {TrackerBug(id) : id \in BugIdUniverse}

\* Outcome of fetch + response.json() for the Bugzilla endpoint.
BugResponses ==
  {[status |-> "neterr", hasBugs |-> FALSE, bugs |-> <<>>],
   [status |-> "httperr", hasBugs |-> FALSE, bugs |-> <<>>],
   [status |-> "ok", hasBugs |-> FALSE, bugs |-> <<>>]}
    \cup {[status |-> "ok", hasBugs |-> TRUE, bugs |-> l] : l \in ListsUpTo(BugObjects, MaxBugs)}

\* "neterr", "httperr", "nobugs" (no bugs field) or "bugs" (a bugs array).
ResponseKind(response) ==
  IF response.status # "ok" THEN response.status
  ELSE IF response.hasBugs THEN "bugs" ELSE "nobugs"

EmptyBugMeta == [id \in {} |-> [id |-> id, isOpen |-> FALSE, summary |-> ""]]

BugMeta(id, isOpen, summary) == [id |-> id, isOpen |-> isOpen, summary |-> summary]

Placeholder(bugId) == BugMeta(bugId, FALSE, "Unavailable")

\* Index of the last bug object with the given id: later assignments to
\* bugMetaMap[bug.id] overwrite earlier ones.
LastIndexOf(bugs, id) ==
  CHOOSE i \in DOMAIN bugs : bugs[i].id = id /\ \A j \in DOMAIN bugs : bugs[j].id = id => j <= i

\* A variant: only the first loop, no placeholders.
BuildBugMetaMapReturnedOnly(bugIds, bugs) ==
  LET returned == {bugs[i].id : i \in DOMAIN bugs}
  IN [id \in returned |->
        LET bug == bugs[LastIndexOf(bugs, id)]
        IN BugMeta(bug.id, bug.is_open, bug.summary)]

\* The two loops of fetchBugMetadata that build the map.
BuildBugMetaMap(bugIds, bugs) ==
  LET returned == {bugs[i].id : i \in DOMAIN bugs}
  IN [id \in returned \cup bugIds |->
        IF id \in returned
        THEN LET bug == bugs[LastIndexOf(bugs, id)]
             IN BugMeta(bug.id, bug.is_open, bug.summary)
        ELSE Placeholder(id)]

\* A variant: one request per bug id.
RECURSIVE BugRequestsPerId(_)
BugRequestsPerId(bugIds) ==
  IF bugIds = {} THEN <<>>
  ELSE LET id == CHOOSE x \in bugIds : \A y \in bugIds : x <= y
       IN <<{id}>> \o BugRequestsPerId(bugIds \ {id})

\* The requests fetchBugMetadata sends: none for an empty id set, else one
\* that carries all ids.
BugRequests(bugIds) == IF bugIds = {} THEN <<>> ELSE <<bugIds>>

\* A variant: a response that omits a requested id is an error.
fetchBugMetadataStrict(bugIds, response) ==
  IF bugIds = {} THEN [ok |-> TRUE, map |-> EmptyBugMeta, message |-> Null]
  ELSE IF response.status # "ok" \/ ~response.hasBugs
          \/ ~(bugIds \subseteq {response.bugs[i].id : i \in DOMAIN response.bugs})
  THEN [ok |-> FALSE, map |-> EmptyBugMeta, message |-> "Unexpected or outdated format."]
  ELSE [ok |-> TRUE, map |-> BuildBugMetaMap(bugIds, response.bugs), message |-> Null]

\* A variant: the response object is not validated.
fetchBugMetadataUnvalidated(bugIds, response) ==
  IF bugIds = {} THEN [ok |-> TRUE, map |-> EmptyBugMeta, message |-> Null]
  ELSE IF response.status = "neterr"
  THEN [ok |-> FALSE, map |-> EmptyBugMeta, message |-> "Failed to fetch"]
  ELSE IF response.status = "httperr"
  THEN [ok |-> FALSE, map |-> EmptyBugMeta,
        message |-> "Failed to fetch bug metadata: statusText"]
  ELSE [ok |-> TRUE, map |-> BuildBugMetaMap(bugIds, response.bugs), message |-> Null]

\* Outcome of fetchBugMetadata for a requested id set and, when a request is
\* made, its response.
fetchBugMetadata(bugIds, response) ==
  IF bugIds = {} THEN [ok |-> TRUE, map |-> EmptyBugMeta, message |-> Null]
  ELSE IF response.status = "neterr"
  THEN [ok |-> FALSE, map |-> EmptyBugMeta, message |-> "Failed to fetch"]
  ELSE IF response.status = "httperr"
  THEN [ok |-> FALSE, map |-> EmptyBugMeta,
        message |-> "Failed to fetch bug metadata: statusText"]
  ELSE IF ~response.hasBugs \/ Len(response.bugs) = 0
  THEN [ok |-> FALSE, map |-> EmptyBugMeta, message |-> "Unexpected or outdated format."]
  ELSE [ok |-> TRUE, map |-> BuildBugMetaMap(bugIds, response.bugs), message |-> Null]

(***************************************************************************)
(* Version schedule.                                                       *)
(***************************************************************************)
VersionSets ==
  {[nightly |-> <<3>>, beta |-> <<2>>, release |-> <<1>>]}

\* Outcome of fetchVersionNumber per channel: the version arrives, or fetch
\* or response.json() rejects.
ChannelOutcomes == [Channels -> {"ok", "rejected"}]

\* Outcome of fetchVersionsPerChannel: the three fetches joined by
\* Promise.all, which rejects as soon as one of them does.
VersionResponses ==
  {[ok |-> \A c \in Channels : o[c] = "ok",
    versions |-> IF \A c \in Channels : o[c] = "ok" THEN v
                 ELSE [nightly |-> <<>>, beta |-> <<>>, release |-> <<>>],
    outcomes |-> o] : o \in ChannelOutcomes, v \in VersionSets}

(***************************************************************************)
(* The version filter.                                                     *)
(***************************************************************************)
\* What the async map callback of getRecordsMatchingFirefoxVersion has
\* produced for each record when the filter starts: a record without an
\* expression matches without any evaluation, the others are pending.
InitialEvalResults(recs) ==
  [i \in DOMAIN recs |->
     IF NoExpression(recs[i].filter_expression) THEN "true" ELSE "pending"]

RECURSIVE IndicesWhere(_, _, _)
IndicesWhere(res, value, i) ==
  IF i > Len(res) THEN <<>>
  ELSE (IF res[i] = value THEN <<i>> ELSE <<>>) \o IndicesWhere(res, value, i + 1)

RECURSIVE PickMatching(_, _, _)
PickMatching(recs, res, indices) ==
  IF indices = <<>> THEN <<>>
  ELSE (IF res[Head(indices)] = "true" THEN <<recs[Head(indices)]>> ELSE <<>>)
         \o PickMatching(recs, res, Tail(indices))

\* A bug: the results gathered in the order in which the evaluations completed.
FilteredRecordsByCompletion(recs, res, order) == PickMatching(recs, res, order)

\* Promise.all gives the results by input position; the nulls are filtered out.
FilteredRecords(recs, res, order) ==
  PickMatching(recs, res, [i \in 1..Len(recs) |-> i])

\* Message of the error an expression's evaluation rejects with.
EvalErrorMessage(expression) ==
  IF expression = ExprNoArg THEN "versionCompare requires two arguments"
  ELSE "Invalid expression"

(***************************************************************************)
(* State.                                                                  *)
(***************************************************************************)
VARIABLES
  rsEnv, rsEnvUsePreview,    \* @state rsEnv, rsEnvUsePreview
  records, displayRecords,   \* @state records, displayRecords
  bugMeta,                   \* @state bugMeta
  loading, error,            \* @state loading, error
  firefoxVersions,           \* @state firefoxVersions: <<>> is null
  filterFirefoxChannel,      \* @state filterFirefoxChannel
  connected,                 \* connectedCallback has run
  task,                      \* the handler invocations and their promises
  last,                      \* per state field, the task whose result arrived last
  compared,                  \* a call of the versionCompare transform and its results
  topTable,                  \* the top-exceptions-table element
  searchParams,              \* window.location.search: the query parameters
  channelFilter              \* the last value getFirefoxChannelFilter returned

vars == <<rsEnv, rsEnvUsePreview, records, displayRecords, bugMeta, loading, error,
          firefoxVersions, filterFirefoxChannel, connected, task, last,
          compared, topTable, searchParams, channelFilter>>

\* URLSearchParams.get gives null for a parameter that is not there.
NoSearchParams == [rs_env |-> Null, rs_preview |-> Null, fx_channel |-> Null]

\* The URLs the page is opened with: rs_env and rs_preview may be given.
InitialSearchParams ==
  {[NoSearchParams EXCEPT !.rs_env = e, !.rs_preview = p] :
     e \in {Null} \cup RSEnvironments, p \in {Null, "true"}}

\* import.meta.env.VITE_RS_ENVIRONMENT as set at build time.
ViteEnvironments == {Undefined} \cup RSEnvironments

isRSEnvValid(env) == env \in RSEnvironments

getRsEnv(params, viteEnv) ==
  IF isRSEnvValid(params.rs_env)
  THEN [env |-> params.rs_env, usePreview |-> params.rs_preview = "true"]
  ELSE IF isRSEnvValid(viteEnv) THEN [env |-> viteEnv, usePreview |-> FALSE]
  ELSE [env |-> "prod", usePreview |-> FALSE]

\* Boolean.prototype.toString
BooleanToString(b) == IF b THEN "true" ELSE "false"

\* getFirefoxChannelFilter has not been called.
NotRead == "<not read>"

\* No call of the transform so far.
NotCompared == [a |-> <<>>, b |-> <<>>, results |-> <<>>]

\* TopExceptionsTable as constructed: no entries, the default minimum site
\* count, topResources not read yet.
minTopSiteCount == 2

NewTopTable ==
  [entries |-> <<>>, minTopSiteCount |-> minTopSiteCount, rendered |-> FALSE,
   ok |-> TRUE, topResources |-> <<>>]

Tasks == 1..MaxTasks

Snapshot == [records |-> records, displayRecords |-> displayRecords, bugMeta |-> bugMeta]

\* A handler invocation that has not started.
IdleTask ==
  [kind |-> "none", pc |-> "idle", env |-> "prod", preview |-> FALSE,
   recs |-> <<>>, version |-> <<>>, evalRes |-> <<>>, order |-> <<>>,
   filt |-> "idle", bug |-> "idle", ids |-> {}, requests |-> <<>>,
   respKind |-> "none", returned |-> {}, meta |-> EmptyBugMeta,
   settled |-> FALSE, failure |-> "none", first |-> "none", versionInfo |-> "none",
   channel |-> Null, target |-> "",
   pre |-> [records |-> <<>>, displayRecords |-> <<>>, bugMeta |-> EmptyBugMeta]]

IsRefresh(tk) == tk.kind \in {"init", "env"}

HasFreeTask == \E t \in Tasks : task[t].kind = "none"
FreeTask == CHOOSE t \in Tasks : task[t].kind = "none" /\ \A u \in Tasks : task[u].kind = "none" => t <= u

PendingEvals(tk) == {i \in DOMAIN tk.evalRes : tk.evalRes[i] = "pending"}

\* A task is done when its handler has returned and none of its promises is
\* pending any more.
Finish(tk) ==
  IF tk.pc = "running" /\ tk.filt # "pending" /\ tk.bug # "pending"
     /\ PendingEvals(tk) = {} /\ (IsRefresh(tk) => tk.settled)
  THEN [tk EXCEPT !.pc = "done"] ELSE tk

\* A variant: of the two results a cycle joins, the one that arrives while
\* the other is still pending is lost.
WriteBackSecondOnly(t, old, new) ==
  IF task[t].filt = "pending" /\ task[t].bug = "pending" THEN old ELSE new

\* A variant: the result of a cycle is dropped once a later handler has started.
WriteBackUnlessSuperseded(t, old, new) ==
  IF \A u \in Tasks : u > t => task[u].kind = "none" THEN new ELSE old

\* The assignment of an arrived result to a state field.
WriteBack(t, old, new) == new

Init ==
  /\ rsEnv = "prod"
  /\ rsEnvUsePreview = FALSE
  /\ records = <<>>
  /\ displayRecords = <<>>
  /\ bugMeta = EmptyBugMeta
  /\ loading = TRUE
  /\ error = Null
  /\ firefoxVersions = <<>>
  /\ filterFirefoxChannel = Null
  /\ connected = FALSE
  /\ task = [t \in Tasks |-> IdleTask]
  /\ last = [records |-> 0, displayRecords |-> 0, bugMeta |-> 0]
  /\ compared = NotCompared
  /\ topTable = NewTopTable
  /\ searchParams \in InitialSearchParams
  /\ channelFilter = NotRead

(***************************************************************************)
(* updateRecords after the records have arrived and passed the spot check: *)
(* the synchronous part of updateFilteredRecords and of fetchBugMetadata,  *)
(* and the join of the two promises.                                       *)
(***************************************************************************)
NoFilterSelected(channel, versions) ==
  channel = Null \/ channel = "" \/ versions = <<>>

\* A variant: the bypass is missing, every expression is evaluated.
StartFilterNoBypass(tk, recs, channel, versions) ==
  LET res == InitialEvalResults(recs)
  IN [tk EXCEPT !.recs = recs, !.channel = channel,
                !.version = IF NoFilterSelected(channel, versions) THEN <<>>
                            ELSE versions[1][channel],
                !.evalRes = res, !.order = IndicesWhere(res, "true", 1),
                !.filt = IF \E i \in DOMAIN res : res[i] = "pending"
                         THEN "pending" ELSE "resolved"]

\* The task record once updateFilteredRecords has been called on recs.
StartFilter(tk, recs, channel, versions) ==
  IF NoFilterSelected(channel, versions)
  THEN [tk EXCEPT !.recs = recs, !.channel = channel, !.filt = "resolved"]
  ELSE LET res == InitialEvalResults(recs)
       IN [tk EXCEPT !.recs = recs, !.channel = channel, !.version = versions[1][channel],
                     !.evalRes = res, !.order = IndicesWhere(res, "true", 1),
                     !.filt = IF \E i \in DOMAIN res : res[i] = "pending"
                              THEN "pending" ELSE "resolved"]

\* The value updateFilteredRecords assigns to displayRecords when it has
\* completed without waiting for an evaluation.
ImmediateDisplay(tk) ==
  IF tk.evalRes = <<>> THEN tk.recs
  ELSE FilteredRecords(tk.recs, tk.evalRes, tk.order)

\* The task record once fetchBugMetadata has been called.
StartBugFetch(tk, recs) ==
  LET ids == BugIdsOf(recs)
  IN [tk EXCEPT !.ids = ids, !.requests = BugRequests(ids),
                !.bug = IF ids = {} THEN "resolved" ELSE "pending",
                !.first = IF tk.filt = "resolved" THEN "filter"
                          ELSE IF ids = {} THEN "bug" ELSE "none"]

\* The handler resumes after await updateRecords(): try / catch / finally.
SettleOk(tk) == [tk EXCEPT !.settled = TRUE]
\* A variant: a failure leaves the handler without reaching its finally block.
SettleFailedNoFinally(tk, cause) == [tk EXCEPT !.failure = cause]
SettleFailed(tk, cause) == [tk EXCEPT !.settled = TRUE, !.failure = cause]

\* error?.message || "Failed to initialize"
ErrorText(message) == IF message = "" THEN "Failed to initialize" ELSE message

(***************************************************************************)
(* Actions.                                                                *)
(***************************************************************************)
\* connectedCallback: getRsEnv chooses the environment, init starts.
ConnectedCallback(env, usePreview) ==
  /\ ~connected
  /\ \E viteEnv \in ViteEnvironments :
       getRsEnv(searchParams, viteEnv) = [env |-> env, usePreview |-> usePreview]
  /\ connected' = TRUE
  /\ rsEnv' = env
  /\ rsEnvUsePreview' = usePreview
  /\ loading' = TRUE
  /\ task' = [task EXCEPT ![1] = [IdleTask EXCEPT !.kind = "init", !.pc = "versions",
                                                  !.pre = Snapshot]]
  /\ UNCHANGED <<compared, topTable, searchParams, channelFilter, records, displayRecords, bugMeta, error, firefoxVersions,
                 filterFirefoxChannel, last>>

\* A variant: init does not select the release channel.
VersionsSettleNoDefault(t, resp) ==
  /\ task[t].pc = "versions"
  /\ firefoxVersions' = IF resp.ok THEN <<resp.versions>> ELSE firefoxVersions
  /\ task' = [task EXCEPT ![t] = [@ EXCEPT !.pc = "records", !.env = rsEnv,
                                           !.preview = rsEnvUsePreview,
                                           !.versionInfo = IF resp.ok THEN "ok" ELSE "failed"]]
  /\ UNCHANGED <<compared, topTable, searchParams, channelFilter, rsEnv, rsEnvUsePreview, records, displayRecords, bugMeta,
                 loading, error, connected, last, filterFirefoxChannel>>

\* A variant: updateVersionInfo does not catch, a failed version fetch ends
\* init in its catch block.
VersionsSettleUncaught(t, resp) ==
  /\ task[t].pc = "versions"
  /\ firefoxVersions' = IF resp.ok THEN <<resp.versions>> ELSE firefoxVersions
  /\ filterFirefoxChannel' = IF firefoxVersions' # <<>> THEN "release"
                             ELSE filterFirefoxChannel
  /\ error' = IF resp.ok THEN error ELSE ErrorText("Failed to fetch")
  /\ loading' = IF resp.ok THEN loading ELSE FALSE
  /\ task' = [task EXCEPT ![t] =
                IF resp.ok
                THEN [@ EXCEPT !.pc = "records", !.env = rsEnv, !.preview = rsEnvUsePreview,
                               !.versionInfo = "ok"]
                ELSE [SettleFailed(@, "versions") EXCEPT !.pc = "done",
                                                         !.versionInfo = "failed"]]
  /\ UNCHANGED <<compared, topTable, searchParams, channelFilter, rsEnv, rsEnvUsePreview, records, displayRecords, bugMeta,
                 connected, last>>

\* init resumes after updateVersionInfo and calls updateRecords, which
\* issues the records fetch for the environment selected at that moment.
VersionsSettle(t, resp) ==
  /\ task[t].pc = "versions"
  /\ firefoxVersions' = IF resp.ok THEN <<resp.versions>> ELSE firefoxVersions
  /\ filterFirefoxChannel' = IF firefoxVersions' # <<>> THEN "release"
                             ELSE filterFirefoxChannel
  /\ task' = [task EXCEPT ![t] = [@ EXCEPT !.pc = "records", !.env = rsEnv,
                                           !.preview = rsEnvUsePreview,
                                           !.versionInfo = IF resp.ok THEN "ok" ELSE "failed"]]
  /\ UNCHANGED <<compared, topTable, searchParams, channelFilter, rsEnv, rsEnvUsePreview, records, displayRecords, bugMeta, loading,
                 error, connected, last>>

\* A variant: the environment dropdown does not reset the preview setting.
HandleRSEnvChangeKeepPreview(targetId, value, checked) ==
  /\ connected
  /\ HasFreeTask
  /\ targetId = "rs-env" => value # rsEnv
  /\ rsEnv' = IF targetId = "rs-env" THEN value ELSE rsEnv
  /\ rsEnvUsePreview' = IF targetId = "rs-env-preview" THEN checked
                        ELSE rsEnvUsePreview
  /\ searchParams' = [searchParams EXCEPT !.rs_env = rsEnv',
                                          !.rs_preview = BooleanToString(rsEnvUsePreview')]
  /\ loading' = TRUE
  /\ task' = [task EXCEPT ![FreeTask] =
                [IdleTask EXCEPT !.kind = "env", !.pc = "records", !.env = rsEnv',
                                 !.preview = rsEnvUsePreview', !.target = targetId,
                                 !.pre = Snapshot]]
  /\ UNCHANGED <<compared, topTable, channelFilter, records, displayRecords, bugMeta, error, firefoxVersions,
                 filterFirefoxChannel, connected, last>>

\* handleRSEnvChange up to its first suspension (the records fetch).
HandleRSEnvChange(targetId, value, checked) ==
  /\ connected
  /\ HasFreeTask
  /\ targetId = "rs-env" => value # rsEnv
  /\ rsEnv' = IF targetId = "rs-env" THEN value ELSE rsEnv
  /\ rsEnvUsePreview' = IF targetId = "rs-env" THEN FALSE
                        ELSE IF targetId = "rs-env-preview" THEN checked
                        ELSE rsEnvUsePreview
  /\ searchParams' = [searchParams EXCEPT !.rs_env = rsEnv',
                                          !.rs_preview = BooleanToString(rsEnvUsePreview')]
  /\ loading' = TRUE
  /\ task' = [task EXCEPT ![FreeTask] =
                [IdleTask EXCEPT !.kind = "env", !.pc = "records", !.env = rsEnv',
                                 !.preview = rsEnvUsePreview', !.target = targetId,
                                 !.pre = Snapshot]]
  /\ UNCHANGED <<compared, topTable, channelFilter, records, displayRecords, bugMeta, error, firefoxVersions,
                 filterFirefoxChannel, connected, last>>

\* The records response arrives: the rest of fetchRecords and updateRecords
\* up to the await of Promise.all, and the handler's catch / finally when
\* updateRecords throws or has nothing to wait for.
RecordsSettle(t, status) ==
  /\ task[t].pc = "records"
  /\ LET resp == RecordsResponse(status, task[t].env, task[t].preview) IN
     IF resp.status # "ok"
     THEN /\ error' = ErrorText(IF resp.status = "neterr" THEN "Failed to fetch"
                                ELSE "Failed to fetch records: statusText")
          /\ loading' = FALSE
          /\ task' = [task EXCEPT ![t] = [SettleFailed(@, "records") EXCEPT !.pc = "done"]]
          /\ UNCHANGED <<records, displayRecords, bugMeta, last>>
     ELSE IF SpotCheckFails(resp.data)
     THEN /\ records' = WriteBack(t, records, resp.data)
          /\ last' = [last EXCEPT !.records = t]
          /\ error' = ErrorText("Unexpected or outdated format.")
          /\ loading' = FALSE
          /\ task' = [task EXCEPT ![t] = [SettleFailed(@, "format") EXCEPT !.pc = "done"]]
          /\ UNCHANGED <<displayRecords, bugMeta>>
     ELSE LET sorted == SortByLastModified(resp.data)
              recs == WriteBack(t, records, sorted)
              started == StartBugFetch(
                           StartFilter([task[t] EXCEPT !.pc = "running"], recs,
                                       filterFirefoxChannel, firefoxVersions), recs)
              joined == started.filt = "resolved" /\ started.bug = "resolved"
          IN /\ records' = recs
             /\ displayRecords' = IF started.filt = "resolved"
                                  THEN WriteBack(t, displayRecords, ImmediateDisplay(started))
                                  ELSE displayRecords
             /\ bugMeta' = IF started.bug = "resolved"
                           THEN WriteBack(t, bugMeta, EmptyBugMeta) ELSE bugMeta
             /\ last' = [records |-> t,
                         displayRecords |-> IF started.filt = "resolved" THEN t
                                            ELSE last.displayRecords,
                         bugMeta |-> IF started.bug = "resolved" THEN t ELSE last.bugMeta]
             /\ error' = IF joined THEN Null ELSE error
             /\ loading' = IF joined THEN FALSE ELSE loading
             /\ task' = [task EXCEPT ![t] =
                           Finish(IF joined THEN SettleOk(started) ELSE started)]
  /\ UNCHANGED <<compared, topTable, searchParams, channelFilter, rsEnv, rsEnvUsePreview, firefoxVersions, filterFirefoxChannel, connected>>

\* The evaluation of record i's filter expression settles.  The first
\* rejection rejects the Promise.all of the filter; the last fulfilment
\* resolves it and updateFilteredRecords assigns displayRecords.
EvalSettle(t, i) ==
  /\ task[t].pc = "running"
  /\ i \in PendingEvals(task[t])
  /\ LET tk == task[t]
         res == versionNumberMatchesFilterExpression(tk.version, tk.recs[i].filter_expression)
         evald == [tk EXCEPT !.evalRes[i] = res, !.order = Append(@, i)]
         rejects == tk.filt = "pending" /\ res = "throw"
         resolves == tk.filt = "pending" /\ res # "throw" /\ PendingEvals(evald) = {}
         next == [evald EXCEPT !.filt = IF rejects THEN "rejected"
                                        ELSE IF resolves THEN "resolved" ELSE @,
                               !.first = IF resolves /\ @ = "none" THEN "filter" ELSE @]
         handlerFails == rejects /\ IsRefresh(tk) /\ ~tk.settled
         handlerOk == resolves /\ IsRefresh(tk) /\ ~tk.settled /\ tk.bug = "resolved"
     IN /\ displayRecords' = IF resolves
                             THEN WriteBack(t, displayRecords,
                                            FilteredRecords(next.recs, next.evalRes, next.order))
                             ELSE displayRecords
        /\ last' = IF resolves THEN [last EXCEPT !.displayRecords = t] ELSE last
        /\ error' = IF handlerFails THEN ErrorText(EvalErrorMessage(tk.recs[i].filter_expression))
                    ELSE IF handlerOk THEN Null ELSE error
        /\ loading' = IF handlerFails \/ handlerOk THEN FALSE ELSE loading
        /\ task' = [task EXCEPT ![t] =
                      Finish(IF handlerFails THEN SettleFailed(next, "filter")
                             ELSE IF handlerOk THEN SettleOk(next) ELSE next)]
  /\ UNCHANGED <<compared, topTable, searchParams, channelFilter, rsEnv, rsEnvUsePreview, records, bugMeta, firefoxVersions,
                 filterFirefoxChannel, connected>>

\* The Bugzilla response arrives: the rest of fetchBugMetadata, the .then
\* callback that assigns bugMeta, and the join.
BugMetaSettle(t, resp) ==
  /\ task[t].pc = "running"
  /\ task[t].bug = "pending"
  /\ LET tk == task[t]
         out == fetchBugMetadata(tk.ids, resp)
         next == [tk EXCEPT !.respKind = ResponseKind(resp),
                            !.returned = {resp.bugs[k].id : k \in DOMAIN resp.bugs}, !.meta = out.map,
                            !.bug = IF out.ok THEN "resolved" ELSE "rejected",
                            !.first = IF out.ok /\ @ = "none" THEN "bug" ELSE @]
         handlerFails == ~out.ok /\ ~tk.settled
         handlerOk == out.ok /\ ~tk.settled /\ tk.filt = "resolved"
     IN /\ bugMeta' = IF out.ok THEN WriteBack(t, bugMeta, out.map) ELSE bugMeta
        /\ last' = IF out.ok THEN [last EXCEPT !.bugMeta = t] ELSE last
        /\ error' = IF handlerFails THEN ErrorText(out.message)
                    ELSE IF handlerOk THEN Null ELSE error
        /\ loading' = IF handlerFails \/ handlerOk THEN FALSE ELSE loading
        /\ task' = [task EXCEPT ![t] =
                      Finish(IF handlerFails THEN SettleFailed(next, "bugs")
                             ELSE IF handlerOk THEN SettleOk(next) ELSE next)]
  /\ UNCHANGED <<compared, topTable, searchParams, channelFilter, rsEnv, rsEnvUsePreview, records, displayRecords, firefoxVersions,
                 filterFirefoxChannel, connected>>

\* A variant: the handler ends like a refresh cycle, clearing error and
\* loading.
HandleFirefoxVersionFilterChangeAsRefresh(value) ==
  /\ connected
  /\ firefoxVersions # <<>>
  /\ HasFreeTask
  /\ value # filterFirefoxChannel
  /\ filterFirefoxChannel' = value
  /\ error' = Null
  /\ loading' = FALSE
  /\ LET started == StartFilter([IdleTask EXCEPT !.kind = "filter", !.pc = "running",
                                                 !.pre = Snapshot],
                                records, value, firefoxVersions)
     IN /\ displayRecords' = IF started.filt = "resolved"
                             THEN WriteBack(FreeTask, displayRecords, ImmediateDisplay(started))
                             ELSE displayRecords
        /\ last' = IF started.filt = "resolved"
                   THEN [last EXCEPT !.displayRecords = FreeTask] ELSE last
        /\ task' = [task EXCEPT ![FreeTask] = Finish(started)]
  /\ UNCHANGED <<compared, topTable, searchParams, channelFilter, rsEnv, rsEnvUsePreview, records, bugMeta,
                 firefoxVersions, connected>>

\* handleFirefoxVersionFilterChange: the select is disabled while there is
\* no version information.
HandleFirefoxVersionFilterChange(value) ==
  /\ connected
  /\ firefoxVersions # <<>>
  /\ HasFreeTask
  /\ value # filterFirefoxChannel
  /\ filterFirefoxChannel' = value
  /\ LET started == StartFilter([IdleTask EXCEPT !.kind = "filter", !.pc = "running",
                                                 !.pre = Snapshot],
                                records, value, firefoxVersions)
     IN /\ displayRecords' = IF started.filt = "resolved"
                             THEN WriteBack(FreeTask, displayRecords, ImmediateDisplay(started))
                             ELSE displayRecords
        /\ last' = IF started.filt = "resolved"
                   THEN [last EXCEPT !.displayRecords = FreeTask] ELSE last
        /\ task' = [task EXCEPT ![FreeTask] = Finish(started)]
  /\ UNCHANGED <<compared, topTable, searchParams, channelFilter, rsEnv, rsEnvUsePreview, records, bugMeta, loading, error,
                 firefoxVersions, connected>>

Next ==
  \/ \E env \in RSEnvironments, usePreview \in BOOLEAN : ConnectedCallback(env, usePreview)
  \/ \E t \in Tasks, resp \in VersionResponses : VersionsSettle(t, resp)
  \/ \E targetId \in {"rs-env", "rs-env-preview"}, value \in RSEnvironments,
        checked \in BOOLEAN : HandleRSEnvChange(targetId, value, checked)
  \/ \E t \in Tasks, status \in RecordStatuses : RecordsSettle(t, status)
  \/ \E t \in Tasks, i \in 1..MaxRecords : EvalSettle(t, i)
  \/ \E t \in Tasks, resp \in BugResponses : BugMetaSettle(t, resp)
  \/ \E value \in {""} \cup Channels : HandleFirefoxVersionFilterChange(value)

Spec == Init /\ [][Next]_vars

(***************************************************************************)
(* The version filter on its own: the page is idle with the filter set to  *)
(* "All" over any record list, and the user changes the channel.           *)
(***************************************************************************)
AllBugs(ids) ==
  [id \in ids |-> BugMeta(id, TrackerBug(id).is_open, TrackerBug(id).summary)]

InitFilter ==
  /\ rsEnv = "prod"
  /\ rsEnvUsePreview = FALSE
  /\ records \in {SortByLastModified(l) : l \in {m \in RecordLists : ~SpotCheckFails(m)}}
  /\ displayRecords = records
  /\ bugMeta = AllBugs(BugIdsOf(records))
  /\ loading = FALSE
  /\ error = Null
  /\ firefoxVersions \in {<<v>> : v \in VersionSets}
  /\ filterFirefoxChannel = ""
  /\ connected = TRUE
  /\ task = [t \in Tasks |-> IdleTask]
  /\ last = [records |-> 0, displayRecords |-> 0, bugMeta |-> 0]
  /\ compared = NotCompared
  /\ topTable = NewTopTable
  /\ searchParams = NoSearchParams
  /\ channelFilter = NotRead

NextFilter ==
  \/ \E value \in {""} \cup Channels : HandleFirefoxVersionFilterChange(value)
  \/ \E t \in Tasks, i \in 1..MaxRecords : EvalSettle(t, i)

SpecFilter == InitFilter /\ [][NextFilter]_vars

(***************************************************************************)
(* The evaluation of one expression: the page is idle over a single record *)
(* with an expression, and the user changes the channel.                   *)
(***************************************************************************)
EvalExpressions == TransformExpressions \cup {ExprVersion, ExprChannel, ExprEnv}

EvalVersionSets ==
  {[nightly |-> <<1, 2, 0>>, beta |-> <<9, 0>>, release |-> <<7, 8, Dot, 0>>],
   [nightly |-> <<1, 0, 0>>, beta |-> <<9>>, release |-> <<2>>]}

InitEval ==
  /\ rsEnv = "prod"
  /\ rsEnvUsePreview = FALSE
  /\ records \in {<<Entry(7, <<1>>, 1, e)>> : e \in EvalExpressions}
  /\ displayRecords = records
  /\ bugMeta = AllBugs(BugIdsOf(records))
  /\ loading = FALSE
  /\ error = Null
  /\ firefoxVersions \in {<<v>> : v \in EvalVersionSets}
  /\ filterFirefoxChannel = ""
  /\ connected = TRUE
  /\ task = [t \in Tasks |-> IdleTask]
  /\ last = [records |-> 0, displayRecords |-> 0, bugMeta |-> 0]
  /\ compared = NotCompared
  /\ topTable = NewTopTable
  /\ searchParams = NoSearchParams
  /\ channelFilter = NotRead

SpecEval == InitEval /\ [][NextFilter]_vars

(***************************************************************************)
(* The versionCompare transform on its own: it is called on two dotted     *)
(* version strings, in both orders and on the first with itself.           *)
(***************************************************************************)
MaxSegments == 2

SegmentDigits == {<<0>>, <<9>>, <<1, 0>>, <<7, 8>>, <<1, 0, 0>>}

RECURSIVE DottedStrings(_)
DottedStrings(n) ==
  IF n = 1 THEN SegmentDigits
  ELSE LET shorter == DottedStrings(n - 1)
       IN shorter \cup {s \o <<Dot>> \o d : s \in shorter, d \in SegmentDigits}

VersionStrings == DottedStrings(MaxSegments)

PageNotLoaded ==
  /\ rsEnv = "prod"
  /\ rsEnvUsePreview = FALSE
  /\ records = <<>>
  /\ displayRecords = <<>>
  /\ bugMeta = EmptyBugMeta
  /\ loading = TRUE
  /\ error = Null
  /\ firefoxVersions = <<>>
  /\ filterFirefoxChannel = Null
  /\ connected = FALSE
  /\ task = [t \in Tasks |-> IdleTask]
  /\ last = [records |-> 0, displayRecords |-> 0, bugMeta |-> 0]

InitCompare ==
  /\ PageNotLoaded
  /\ searchParams = NoSearchParams
  /\ channelFilter = NotRead
  /\ compared \in {[a |-> a, b |-> b, results |-> <<>>] : a \in VersionStrings, b \in VersionStrings}
  /\ topTable = NewTopTable

\* a|versionCompare(b), b|versionCompare(a) and a|versionCompare(a).
VersionCompareCalls ==
  /\ compared.results = <<>>
  /\ compared' = [compared EXCEPT !.results =
                    <<versionCompare(compared.a, <<compared.b>>).value,
                      versionCompare(compared.b, <<compared.a>>).value,
                      versionCompare(compared.a, <<compared.a>>).value>>]
  /\ UNCHANGED <<rsEnv, rsEnvUsePreview, records, displayRecords, bugMeta, loading, error,
                 firefoxVersions, filterFirefoxChannel, connected, task, last, topTable,
                 searchParams, channelFilter>>

NextCompare == VersionCompareCalls

SpecCompare == InitCompare /\ [][NextCompare]_vars

(***************************************************************************)
(* The top-exceptions-table element.  A URL pattern is the sequence of its *)
(* pieces: "://", "*", ".", "/" and the other runs of characters.          *)
(***************************************************************************)
NoHost == <<>>

\* [^/*]+ from position i on: the pieces up to the next "/" or "*".
RECURSIVE HostRun(_, _)
HostRun(urlPattern, i) ==
  IF i > Len(urlPattern) \/ urlPattern[i] \in {"/", "*", "://"} THEN <<>>
  ELSE <<urlPattern[i]>> \o HostRun(urlPattern, i + 1)

\* The capture of (?:\*\.)?([^/*]+) right after the "://" at position i.
HostAfter(urlPattern, i) ==
  LET afterWildcard ==
        IF i + 2 <= Len(urlPattern) /\ urlPattern[i + 1] = "*" /\ urlPattern[i + 2] = "."
        THEN HostRun(urlPattern, i + 3) ELSE <<>>
  IN IF afterWildcard # <<>> THEN afterWildcard ELSE HostRun(urlPattern, i + 1)

RECURSIVE FirstHostFrom(_, _)
FirstHostFrom(urlPattern, i) ==
  IF i > Len(urlPattern) THEN NoHost
  ELSE IF urlPattern[i] = "://" /\ HostAfter(urlPattern, i) # <<>>
       THEN HostAfter(urlPattern, i)
       ELSE FirstHostFrom(urlPattern, i + 1)

\* The host of a URL pattern, NoHost for null.
getHostFromUrlPattern(urlPattern) == FirstHostFrom(urlPattern, 1)

\* Entries as the table reads them; a global entry has no topLevelUrlPattern.
PerSiteEntry(id, urlPattern, topLevelUrlPattern, bugIds) ==
  [id |-> id, urlPattern |-> urlPattern, topLevelUrlPattern |-> topLevelUrlPattern,
   bugIds |-> bugIds]

GlobalEntry(id, urlPattern, bugIds) ==
  [id |-> id, urlPattern |-> urlPattern, bugIds |-> bugIds]

Pattern(host) == <<"*", "://">> \o host \o <<"/", "*">>
WildcardPattern(host) == <<"*", "://", "*", ".">> \o host \o <<"/", "*">>
AllHostsPattern == <<"*", "://", "*", "/", "*">>
Cdn == <<"cdn", ".", "example">>
Trk == <<"trk">>

TopEntryPool ==
  {PerSiteEntry(1, Pattern(Cdn), Pattern(<<"a">>), <<1>>),
   PerSiteEntry(2, WildcardPattern(Cdn), Pattern(<<"b">>), <<2>>),
   PerSiteEntry(3, Pattern(Cdn), WildcardPattern(<<"a">>), <<1, 2>>),
   PerSiteEntry(4, Pattern(Trk), Pattern(<<"a">>), <<2>>),
   GlobalEntry(5, Pattern(Cdn), <<2>>),
   PerSiteEntry(6, Pattern(Trk), <<>>, <<1>>),
   PerSiteEntry(7, AllHostsPattern, Pattern(<<"b">>), NoBugIds),
   PerSiteEntry(8, Pattern(Cdn), AllHostsPattern, <<2>>),
   PerSiteEntry(9, Pattern(Trk), Pattern(<<"b">>), NoBugIds)}

MaxEntries == 3

TopEntryLists ==
  {l \in ListsUpTo(TopEntryPool, MaxEntries) :
     \A i \in DOMAIN l, k \in DOMAIN l : l[i] = l[k] => i = k}

\* A variant: only an absent topLevelUrlPattern makes an entry global.
IsPerSiteUnlessAbsent(entry) ==
  "topLevelUrlPattern" \in DOMAIN entry

\* entry.topLevelUrlPattern is truthy.
IsPerSite(entry) ==
  "topLevelUrlPattern" \in DOMAIN entry /\ entry.topLevelUrlPattern # <<>>

\* A variant: an entry without a resource host is not skipped.
HostMissingIgnored(resourceHost) == FALSE

\* !resourceHost
HostMissing(resourceHost) == resourceHost = NoHost

IndexOfHost(resources, host) ==
  IF \E k \in DOMAIN resources : resources[k].host = host
  THEN CHOOSE k \in DOMAIN resources : resources[k].host = host
  ELSE 0

\* One iteration of the loop of topResources over the map built so far, its
\* values in insertion order; ok is FALSE once an iteration has thrown.
AddTopEntry(acc, entry) ==
  IF ~acc.ok \/ ~IsPerSite(entry) THEN acc
  ELSE LET resourceHost == getHostFromUrlPattern(entry.urlPattern)
       IN IF HostMissing(resourceHost) THEN acc
          ELSE IF entry.bugIds = NoBugIds THEN [ok |-> FALSE, resources |-> <<>>]
          ELSE LET found == IndexOfHost(acc.resources, resourceHost)
                   base == IF found = 0
                           THEN Append(acc.resources,
                                       [host |-> resourceHost, topLevelSites |-> {},
                                        bugIds |-> {}, entries |-> {}])
                           ELSE acc.resources
                   k == IF found = 0 THEN Len(base) ELSE found
                   topLevelSite == getHostFromUrlPattern(entry.topLevelUrlPattern)
               IN [ok |-> TRUE,
                   resources |->
                     [base EXCEPT ![k].topLevelSites =
                                    IF topLevelSite # NoHost THEN @ \cup {topLevelSite} ELSE @,
                                  ![k].bugIds = @ \cup Range(entry.bugIds),
                                  ![k].entries = @ \cup {entry}]]

RECURSIVE CollectTopResources(_, _)
CollectTopResources(acc, entries) ==
  IF entries = <<>> THEN acc
  ELSE CollectTopResources(AddTopEntry(acc, Head(entries)), Tail(entries))

\* A variant: the entries of a resource are counted, not its distinct sites.
MeetsMinTopSiteCountByEntries(topResource, min) ==
  Cardinality(topResource.entries) >= min

MeetsMinTopSiteCount(topResource, min) ==
  Cardinality(topResource.topLevelSites) >= min

RECURSIVE FilterTopResources(_, _)
FilterTopResources(resources, min) ==
  IF resources = <<>> THEN <<>>
  ELSE (IF MeetsMinTopSiteCount(Head(resources), min) THEN <<Head(resources)>> ELSE <<>>)
         \o FilterTopResources(Tail(resources), min)

\* A variant: the comparator is a - b, the fewest sites come first.
RECURSIVE InsertBySiteCountAscending(_, _)
InsertBySiteCountAscending(sorted, x) ==
  IF sorted = <<>> THEN <<x>>
  ELSE IF Cardinality(Head(sorted).topLevelSites) <= Cardinality(x.topLevelSites)
       THEN <<Head(sorted)>> \o InsertBySiteCountAscending(Tail(sorted), x)
       ELSE <<x>> \o sorted

\* Array.prototype.sort is stable: a resource goes behind those with at
\* least as many sites.
RECURSIVE InsertBySiteCount(_, _)
InsertBySiteCount(sorted, x) ==
  IF sorted = <<>> THEN <<x>>
  ELSE IF Cardinality(Head(sorted).topLevelSites) >= Cardinality(x.topLevelSites)
       THEN <<Head(sorted)>> \o InsertBySiteCount(Tail(sorted), x)
       ELSE <<x>> \o sorted

RECURSIVE SortBySiteCount(_)
SortBySiteCount(resources) ==
  IF resources = <<>> THEN <<>>
  ELSE InsertBySiteCount(SortBySiteCount(SubSeq(resources, 1, Len(resources) - 1)),
                         resources[Len(resources)])

\* The topResources getter: [ok, resources].
topResources(entries, min) ==
  LET collected == CollectTopResources([ok |-> TRUE, resources |-> <<>>], entries)
  IN IF ~collected.ok THEN collected
     ELSE [ok |-> TRUE,
           resources |-> SortBySiteCount(FilterTopResources(collected.resources, min))]

InitTop ==
  /\ PageNotLoaded
  /\ searchParams = NoSearchParams
  /\ channelFilter = NotRead
  /\ compared = NotCompared
  /\ topTable \in {[NewTopTable EXCEPT !.entries = l, !.minTopSiteCount = n] :
                     l \in TopEntryLists, n \in 1..minTopSiteCount}

\* The element renders and reads topResources.
RenderTopResources ==
  /\ ~topTable.rendered
  /\ LET result == topResources(topTable.entries, topTable.minTopSiteCount)
     IN topTable' = [topTable EXCEPT !.rendered = TRUE, !.ok = result.ok,
                                     !.topResources = result.resources]
  /\ UNCHANGED <<rsEnv, rsEnvUsePreview, records, displayRecords, bugMeta, loading, error,
                 firefoxVersions, filterFirefoxChannel, connected, task, last, compared,
                 searchParams, channelFilter>>

NextTop == RenderTopResources

SpecTop == InitTop /\ [][NextTop]_vars

(***************************************************************************)
(* One handler at a time: the user changes a setting only when every       *)
(* earlier handler has finished.                                           *)
(***************************************************************************)
Quiet == \A t \in Tasks : task[t].pc \in {"idle", "done"}

HandleRSEnvChangeWhenQuiet(targetId, value, checked) ==
  Quiet /\ HandleRSEnvChange(targetId, value, checked)

HandleFirefoxVersionFilterChangeWhenQuiet(value) ==
  Quiet /\ HandleFirefoxVersionFilterChange(value)

NextSeq ==
  \/ \E env \in RSEnvironments, usePreview \in BOOLEAN : ConnectedCallback(env, usePreview)
  \/ \E t \in Tasks, resp \in VersionResponses : VersionsSettle(t, resp)
  \/ \E targetId \in {"rs-env", "rs-env-preview"}, value \in RSEnvironments,
        checked \in BOOLEAN : HandleRSEnvChangeWhenQuiet(targetId, value, checked)
  \/ \E t \in Tasks, status \in RecordStatuses : RecordsSettle(t, status)
  \/ \E t \in Tasks, i \in 1..MaxRecords : EvalSettle(t, i)
  \/ \E t \in Tasks, resp \in BugResponses : BugMetaSettle(t, resp)
  \/ \E value \in {""} \cup Channels : HandleFirefoxVersionFilterChangeWhenQuiet(value)

SpecSeq == Init /\ [][NextSeq]_vars

(***************************************************************************)
(* Properties.                                                             *)
(***************************************************************************)
Started(tk) == tk.pc \in {"running", "done"}
OnlyTask(t) == \A u \in Tasks : u # t => task[u].kind = "none"
Threw(tk) == \E i \in DOMAIN tk.evalRes : tk.evalRes[i] = "throw"
Matches(version, r) ==
  versionNumberMatchesFilterExpression(version, r.filter_expression) = "true"
\* The records of recs that match the version, in the order of recs.
MatchingSublist(recs, version) == SelectSeq(recs, LAMBDA r : Matches(version, r))

\* C1: when the evaluation of some record's filter expression throws during
\* version filtering, the filter still completes without an error (the
\* record is only left out) and the refresh cycle does not fail.
C1_EvaluationFailureIsolated ==
  \A t \in Tasks :
    (Started(task[t]) /\ PendingEvals(task[t]) = {} /\ Threw(task[t]))
      => /\ task[t].filt = "resolved"
         /\ task[t].failure = "none"

\* C2: when the records fetch or the bug-metadata fetch of a refresh cycle
\* fails, an error message is shown and records, displayRecords and bugMeta
\* hold the values they had when the cycle started (stated for a cycle that
\* runs alone).
C2_FailedFetchKeepsData ==
  \A t \in Tasks :
    (IsRefresh(task[t]) /\ OnlyTask(t) /\ task[t].failure \in {"records", "bugs"})
      => /\ error # Null
         /\ records = task[t].pre.records
         /\ displayRecords = task[t].pre.displayRecords
         /\ bugMeta = task[t].pre.bugMeta

\* The value a refresh cycle assigns to records when its response arrives.
CycleRecords(tk) ==
  IF tk.failure = "format" THEN ServerRecords(tk.env, tk.preview)
  ELSE SortByLastModified(ServerRecords(tk.env, tk.preview))

\* The value a task's updateFilteredRecords assigns to displayRecords.
CycleDisplay(tk) ==
  IF tk.evalRes = <<>> THEN tk.recs ELSE MatchingSublist(tk.recs, tk.version)

\* C3: there is no cancellation: for each of records, displayRecords and
\* bugMeta, the cycle whose result for it arrived last determines its value,
\* also when a later cycle has been started since.
C3_LastArrivalWins ==
  \A t \in Tasks :
    IsRefresh(task[t]) =>
      /\ last.records = t => records = CycleRecords(task[t])
      /\ last.displayRecords = t => displayRecords = CycleDisplay(task[t])
      /\ last.bugMeta = t => bugMeta = task[t].meta

\* C3 witness: both cycles have succeeded, all three fields come from the
\* cycle started first, and they are not the data of the selected endpoint.
C3_Witness ==
  /\ task[1].kind = "init" /\ task[2].kind = "env"
  /\ task[1].pc = "done" /\ task[2].pc = "done"
  /\ task[1].failure = "none" /\ task[2].failure = "none"
  /\ last = [records |-> 1, displayRecords |-> 1, bugMeta |-> 1]
  /\ <<task[1].env, task[1].preview>> # <<rsEnv, rsEnvUsePreview>>
  /\ records # SortByLastModified(ServerRecords(rsEnv, rsEnvUsePreview))
  /\ records = SortByLastModified(ServerRecords(task[1].env, task[1].preview))
  /\ bugMeta # task[2].meta

\* C4: a refresh cycle that got as far as the join has settled only when
\* both its version filtering and its bug-metadata fetch have completed.
C4_SettledOnlyAfterBoth ==
  \A t \in Tasks :
    (IsRefresh(task[t]) /\ Started(task[t]) /\ task[t].settled)
      => /\ task[t].filt # "pending"
         /\ task[t].bug # "pending"

\* C5: when no evaluation fails, the version filter gives exactly the
\* records whose expression matches the target version (records without an
\* expression included), in input order, whatever the completion order.
C5_FilterIsOrderedSublist ==
  \A t \in Tasks :
    (task[t].filt = "resolved" /\ task[t].evalRes # <<>>
       /\ ~Threw(task[t]) /\ last.displayRecords = t)
      => /\ displayRecords = MatchingSublist(task[t].recs, task[t].version)
         /\ Len(displayRecords) <= Len(task[t].recs)

\* C5 witness: two evaluations completed in reverse input order and both
\* records are in the result.
C5_Witness ==
  \E t \in Tasks :
    /\ task[t].kind = "filter" /\ task[t].filt = "resolved"
    /\ last.displayRecords = t
    /\ task[t].order = <<2, 1>>
    /\ InitialEvalResults(task[t].recs) = <<"pending", "pending">>
    /\ displayRecords = task[t].recs

\* C6 as stated: a successful response (one with a bugs array) that leaves
\* out requested ids, even all of them, never makes fetchBugMetadata fail.
C6_OmissionNeverFails ==
  \A t \in Tasks :
    (task[t].respKind = "bugs" /\ task[t].ids # {}
       /\ ~(task[t].ids \subseteq task[t].returned))
      => task[t].bug = "resolved"

\* C6 amended: a successful response whose bugs array is not empty and that
\* leaves out requested ids does not make fetchBugMetadata fail: the ids
\* left out get placeholders.
C6_OmissionWithNonEmptyBugs ==
  \A t \in Tasks :
    (task[t].respKind = "bugs" /\ task[t].ids # {} /\ task[t].returned # {}
       /\ ~(task[t].ids \subseteq task[t].returned))
      => /\ task[t].bug = "resolved"
         /\ \A id \in task[t].ids \ task[t].returned :
              /\ id \in DOMAIN task[t].meta
              /\ task[t].meta[id].summary = "Unavailable"

\* C6 witness: every requested id was left out of a non-empty bugs array.
C6_Witness ==
  \E t \in Tasks :
    /\ task[t].respKind = "bugs" /\ task[t].bug = "resolved"
    /\ task[t].ids # {} /\ task[t].returned # {}
    /\ task[t].ids \cap task[t].returned = {}
    /\ bugMeta = task[t].meta
    /\ \A id \in task[t].ids : bugMeta[id].summary = "Unavailable"

\* C7: when fetchBugMetadata returns normally the mapping has an entry for
\* every requested id: the response's is_open and summary for the ids in the
\* response, isOpen = false and summary = "Unavailable" for the others.
C7_EveryRequestedIdMapped ==
  \A t \in Tasks :
    (IsRefresh(task[t]) /\ task[t].bug = "resolved")
      => \A id \in task[t].ids :
           /\ id \in DOMAIN task[t].meta
           /\ task[t].meta[id] =
                IF id \in task[t].returned
                THEN [id |-> id, isOpen |-> TrackerBug(id).is_open,
                      summary |-> TrackerBug(id).summary]
                ELSE [id |-> id, isOpen |-> FALSE, summary |-> "Unavailable"]

\* C7 witness: two ids requested, one answered and one left out.
C7_Witness ==
  \E t \in Tasks :
    /\ task[t].bug = "resolved"
    /\ task[t].ids = {1, 2} /\ task[t].returned = {1}
    /\ bugMeta = task[t].meta
    /\ bugMeta[1].isOpen /\ bugMeta[2].summary = "Unavailable"

\* C8: for a non-empty id set a response without a usable bug list (no bugs
\* field, or an empty array) makes fetchBugMetadata fail, and the refresh
\* cycle ends in the error state.
C8_NoBugListFails ==
  \A t \in Tasks :
    (IsRefresh(task[t]) /\ task[t].ids # {}
       /\ (task[t].respKind = "nobugs" \/ (task[t].respKind = "bugs" /\ task[t].returned = {})))
      => /\ task[t].bug = "rejected"
         /\ task[t].settled
         /\ task[t].failure \in {"bugs", "filter"}
         /\ (OnlyTask(t) => error # Null /\ ~loading)
         /\ (OnlyTask(t) /\ task[t].failure = "bugs"
               => error = "Unexpected or outdated format.")

\* C8 witness: a cycle failed on an empty bugs array.
C8_Witness ==
  \E t \in Tasks :
    /\ IsRefresh(task[t]) /\ task[t].ids # {}
    /\ task[t].respKind = "bugs" /\ task[t].returned = {}
    /\ task[t].failure = "bugs"
    /\ error = "Unexpected or outdated format."

\* C9: fetchBugMetadata sends no request and returns an empty mapping for
\* an empty id set, and sends exactly one request that carries all ids
\* otherwise.
C9_OneBatchedRequest ==
  \A t \in Tasks :
    (IsRefresh(task[t]) /\ task[t].bug # "idle")
      => /\ task[t].ids = BugIdsOf(task[t].recs)
         /\ (task[t].ids = {}
               => /\ task[t].requests = <<>>
                  /\ task[t].bug = "resolved"
                  /\ task[t].meta = EmptyBugMeta)
         /\ (task[t].ids # {} => task[t].requests = <<task[t].ids>>)

\* C9 witness: one cycle asked for no id, another for two ids.
C9_Witness ==
  \E t, u \in Tasks :
    /\ IsRefresh(task[t]) /\ task[t].bug = "resolved"
    /\ task[t].ids = {} /\ task[t].requests = <<>>
    /\ IsRefresh(task[u]) /\ task[u].bug # "idle"
    /\ Cardinality(task[u].ids) = 2 /\ Len(task[u].requests) = 1

\* C10: a cycle whose records fail the spot check ends like one whose
\* records fetch failed: error message, no bug-metadata request, and
\* records, displayRecords and bugMeta as they were when the cycle started
\* (stated for a cycle that runs alone).
C10_FormatMismatchKeepsData ==
  \A t \in Tasks :
    (IsRefresh(task[t]) /\ OnlyTask(t) /\ task[t].failure = "format")
      => /\ error # Null
         /\ task[t].requests = <<>>
         /\ records = task[t].pre.records
         /\ displayRecords = task[t].pre.displayRecords
         /\ bugMeta = task[t].pre.bugMeta

\* C11: a refresh cycle whose fetched list holds a record without bugIds, at
\* any position, ends with the format-mismatch error.
C11_AnyMissingBugIdsFails ==
  \A t \in Tasks :
    (IsRefresh(task[t]) /\ Started(task[t]) /\ task[t].failure # "records"
       /\ \E i \in DOMAIN ServerRecords(task[t].env, task[t].preview) :
            ServerRecords(task[t].env, task[t].preview)[i].bugIds = NoBugIds)
      => task[t].failure = "format"

\* The mapping fetchBugMetadata returns for the requested ids when the
\* response holds the tracker's bug objects of the ids in returned.
ExpectedBugMeta(ids, returned) ==
  [id \in ids \cup returned |->
     IF id \in returned
     THEN [id |-> id, isOpen |-> TrackerBug(id).is_open, summary |-> TrackerBug(id).summary]
     ELSE [id |-> id, isOpen |-> FALSE, summary |-> "Unavailable"]]

\* The latest handler started.
LatestTask(t) == task[t].kind # "none" /\ \A u \in Tasks : u > t => task[u].kind = "none"

\* C12: when a refresh cycle has succeeded, records, displayRecords and
\* bugMeta are determined by the cycle's records, target version and
\* Bugzilla response alone, whichever of the version filtering and the
\* bug-metadata fetch completed first.
C12_JoinOrderIrrelevant ==
  \A t \in Tasks :
    (IsRefresh(task[t]) /\ LatestTask(t) /\ task[t].pc = "done" /\ task[t].failure = "none")
      => /\ records = SortByLastModified(ServerRecords(task[t].env, task[t].preview))
         /\ displayRecords =
              IF NoFilterSelected(filterFirefoxChannel, firefoxVersions) THEN records
              ELSE MatchingSublist(records, firefoxVersions[1][filterFirefoxChannel])
         /\ bugMeta = IF BugIdsOf(records) = {} THEN EmptyBugMeta
                      ELSE ExpectedBugMeta(BugIdsOf(records), task[t].returned)

\* C12 witness: a cycle succeeded in which the bug metadata arrived while an
\* evaluation was still pending, and the filter left a record out.
C12_Witness ==
  \E t \in Tasks :
    /\ IsRefresh(task[t]) /\ LatestTask(t)
    /\ task[t].pc = "done" /\ task[t].failure = "none"
    /\ task[t].first = "bug"
    /\ task[t].returned # {}
    /\ Len(displayRecords) = 1 /\ Len(records) = 2

\* C13: for every version, a record whose filter expression is absent or the
\* empty string matches, and its result is there as soon as the filter has
\* started: no evaluation of it is ever pending.
C13_NoExpressionAlwaysMatches ==
  \A t \in Tasks : \A i \in DOMAIN task[t].evalRes :
    (task[t].recs[i].filter_expression = Undefined \/ task[t].recs[i].filter_expression = "")
      => /\ task[t].evalRes[i] = "true"
         /\ versionNumberMatchesFilterExpression(task[t].version,
                                                 task[t].recs[i].filter_expression) = "true"

\* C13 witness: a filter ran over a record without an expression and a
\* record with the empty expression, and displays both.
C13_Witness ==
  \E t \in Tasks :
    /\ task[t].pc = "done" /\ task[t].kind = "filter"
    /\ Len(task[t].evalRes) = 2
    /\ task[t].recs[1].filter_expression = Undefined
    /\ task[t].recs[2].filter_expression = ""
    /\ last.displayRecords = t
    /\ displayRecords = task[t].recs

\* C14: for a non-empty expression whose evaluation has settled without an
\* error, the record matches exactly when the result is the boolean true: a
\* number, a string, undefined and an object do not match; and the record is
\* displayed exactly when it matches.
C14_OnlyBooleanTrueMatches ==
  \A t \in Tasks : \A i \in DOMAIN task[t].evalRes :
    LET expression == task[t].recs[i].filter_expression
        result == evaluateFilterExpression(expression, task[t].version)
    IN (expression \in EvalExpressions /\ task[t].evalRes[i] # "pending" /\ result # "throw")
         => /\ task[t].evalRes[i] = "true" <=> result = "true"
            /\ task[t].evalRes[i] = "false" <=>
                 result \in {"false", "string", "undefined", "object",
                             "number -1", "number 0", "number 1"}
            /\ (task[t].pc = "done" /\ last.displayRecords = t)
                 => ((\E j \in DOMAIN displayRecords : displayRecords[j] = task[t].recs[i])
                       <=> result = "true")

\* C14 witness: an expression evaluated to the number 1 and its record is
\* not displayed, and for another version it evaluated to the number 0.
C14_Witness ==
  \E t \in Tasks, u \in Tasks :
    /\ task[t].pc = "done" /\ Len(task[t].evalRes) = 1
    /\ evaluateFilterExpression(task[t].recs[1].filter_expression, task[t].version) = "number 1"
    /\ task[t].evalRes[1] = "false"
    /\ last.displayRecords = t /\ displayRecords = <<>>
    /\ task[u].pc = "done" /\ Len(task[u].evalRes) = 1
    /\ task[u].evalRes[1] = "false"
    /\ evaluateFilterExpression(task[u].recs[1].filter_expression, task[u].version) = "number 0"

\* The number a dotted version string of the modelled versions denotes,
\* major * 1000 + minor, written out by hand.
NumericVersion(s) ==
  CASE s = <<1, 2, 0>> -> 120000
    [] s = <<1, 0, 0>> -> 100000
    [] s = <<9, 0>> -> 90000
    [] s = <<7, 8, Dot, 0>> -> 78000
    [] s = <<9, Dot, 0>> -> 9000
    [] s = <<9>> -> 9000
    [] s = <<3>> -> 3000
    [] s = <<2>> -> 2000
    [] s = <<1>> -> 1000

\* C16: an expression env.version|versionCompare('T') >= 0 matches exactly
\* when the version is numerically at least T: 120 matches T = 100, 90 does
\* not, and 78.0 compares greater than 9.0.
C16_GatesOnNumericOrdering ==
  /\ \A t \in Tasks : \A i \in DOMAIN task[t].evalRes :
       LET expression == task[t].recs[i].filter_expression
       IN (expression \in {ExprGE2, ExprGE100, ExprGE9_0} /\ task[t].evalRes[i] # "pending")
            => (task[t].evalRes[i] = "true"
                  <=> NumericVersion(task[t].version)
                        >= NumericVersion(TransformArgs(expression)[1]))
  /\ \A t \in Tasks :
       (task[t].pc = "done" /\ Len(task[t].evalRes) = 1
          /\ task[t].recs[1].filter_expression = ExprGE100)
         => /\ task[t].version = <<1, 2, 0>> => task[t].evalRes[1] = "true"
            /\ task[t].version = <<9, 0>> => task[t].evalRes[1] = "false"
  /\ \A t \in Tasks :
       (task[t].pc = "done" /\ Len(task[t].evalRes) = 1
          /\ task[t].recs[1].filter_expression = ExprGE9_0
          /\ task[t].version = <<7, 8, Dot, 0>>)
         => task[t].evalRes[1] = "true"

\* C16 witness: the same record with T = 100 was filtered for version 120,
\* where it matched, and for version 90, where it did not.
C16_Witness ==
  \E t \in Tasks, u \in Tasks :
    /\ task[t].pc = "done" /\ task[u].pc = "done"
    /\ Len(task[t].evalRes) = 1 /\ Len(task[u].evalRes) = 1
    /\ task[t].recs[1].filter_expression = ExprGE100
    /\ task[u].recs[1].filter_expression = ExprGE100
    /\ task[t].version = <<1, 2, 0>> /\ task[t].evalRes[1] = "true"
    /\ task[u].version = <<9, 0>> /\ task[u].evalRes[1] = "false"

\* C15: whenever updateFilteredRecords is called while the channel is null
\* or "All", or while there is no version information, it evaluates no
\* expression and displayRecords becomes the whole records list.
C15_BypassWithoutSelection ==
  [][\A t \in Tasks :
       (task[t].filt = "idle" /\ task'[t].filt # "idle"
          /\ (filterFirefoxChannel' = Null \/ filterFirefoxChannel' = ""
                \/ firefoxVersions' = <<>>))
         => /\ task'[t].evalRes = <<>>
            /\ task'[t].order = <<>>
            /\ task'[t].filt = "resolved"
            /\ displayRecords' = records'
            /\ displayRecords' = task'[t].recs]_vars

\* C15 witness: version information is there but no channel is selected, and
\* the display holds all records, one of them with an expression whose
\* evaluation fails and one with an expression that no version satisfies.
C15_Witness ==
  \E t \in Tasks :
    /\ task[t].pc = "done" /\ task[t].filt = "resolved" /\ task[t].evalRes = <<>>
    /\ firefoxVersions # <<>>
    /\ filterFirefoxChannel \in {Null, ""}
    /\ last.displayRecords = t
    /\ displayRecords = records
    /\ \E i \in DOMAIN displayRecords :
         displayRecords[i].filter_expression \in {ExprNoArg, ExprVersion}

\* C17: for all dotted version strings a and b the comparison gives a value
\* in {-1, 0, 1}, compare(a, b) = -compare(b, a) and compare(a, a) = 0.
C17_CompareAntisymmetricReflexive ==
  compared.results # <<>>
    => /\ \A i \in 1..3 : compared.results[i] \in {-1, 0, 1}
       /\ compared.results[1] = -compared.results[2]
       /\ compared.results[3] = 0

\* C17 witness: 78.0 compared with 9.0 gave 1 and 9.0 with 78.0 gave -1.
C17_Witness ==
  /\ compared.a = <<7, 8, Dot, 0>> /\ compared.b = <<9, Dot, 0>>
  /\ compared.results = <<1, -1, 0>>

\* The distinct top-level-site hosts of the per-site entries whose
\* urlPattern host is host.
TopLevelSitesOf(entries, host) ==
  {getHostFromUrlPattern(entries[i].topLevelUrlPattern) :
     i \in {k \in DOMAIN entries :
              /\ "topLevelUrlPattern" \in DOMAIN entries[k]
              /\ entries[k].topLevelUrlPattern # <<>>
              /\ getHostFromUrlPattern(entries[k].urlPattern) = host}} \ {NoHost}

\* C18: when topResources has returned, a resource host is in the result
\* exactly when the number of distinct top-level-site hosts of its per-site
\* entries is at least minTopSiteCount, and no host is there twice.
C18_IncludedIffEnoughDistinctSites ==
  (topTable.rendered /\ topTable.ok)
    => /\ \A i \in DOMAIN topTable.entries :
            LET host == getHostFromUrlPattern(topTable.entries[i].urlPattern)
            IN host # NoHost
                 => ((\E k \in DOMAIN topTable.topResources : topTable.topResources[k].host = host)
                       <=> Cardinality(TopLevelSitesOf(topTable.entries, host))
                             >= topTable.minTopSiteCount)
       /\ \A k \in DOMAIN topTable.topResources :
            /\ \E i \in DOMAIN topTable.entries :
                 getHostFromUrlPattern(topTable.entries[i].urlPattern)
                   = topTable.topResources[k].host
            /\ topTable.topResources[k].topLevelSites
                 = TopLevelSitesOf(topTable.entries, topTable.topResources[k].host)
            /\ \A m \in DOMAIN topTable.topResources :
                 topTable.topResources[m].host = topTable.topResources[k].host => m = k

\* C18 witness: with the default minimum of 2, a resource is in the result
\* with three entries and two distinct sites.
C18_Witness ==
  /\ topTable.rendered /\ topTable.ok
  /\ topTable.minTopSiteCount = 2
  /\ \E k \in DOMAIN topTable.topResources :
       /\ Cardinality(topTable.topResources[k].entries) = 3
       /\ Cardinality(topTable.topResources[k].topLevelSites) = 2

HasTopLevelUrlPattern(entry) ==
  "topLevelUrlPattern" \in DOMAIN entry /\ entry.topLevelUrlPattern # <<>>

\* C19: no entry with an absent or empty topLevelUrlPattern is among the
\* entries of a TopResource, and the result is the one topResources gives
\* for the input without these entries.
C19_GlobalEntriesDoNotContribute ==
  topTable.rendered
    => /\ \A k \in DOMAIN topTable.topResources : \A e \in topTable.topResources[k].entries :
            "topLevelUrlPattern" \in DOMAIN e /\ e.topLevelUrlPattern # <<>>
       /\ [ok |-> topTable.ok, resources |-> topTable.topResources]
            = topResources(SelectSeq(topTable.entries, HasTopLevelUrlPattern),
                           topTable.minTopSiteCount)

\* C19 witness: the input holds an entry without topLevelUrlPattern and one
\* with the empty topLevelUrlPattern, and the result is not empty.
C19_Witness ==
  /\ topTable.rendered /\ topTable.ok
  /\ topTable.topResources # <<>>
  /\ \E i \in DOMAIN topTable.entries : "topLevelUrlPattern" \notin DOMAIN topTable.entries[i]
  /\ \E i \in DOMAIN topTable.entries :
       /\ "topLevelUrlPattern" \in DOMAIN topTable.entries[i]
       /\ topTable.entries[i].topLevelUrlPattern = <<>>

HasResourceHost(entry) == getHostFromUrlPattern(entry.urlPattern) # NoHost

\* C20: no entry whose urlPattern yields no host is in a TopResource, the
\* result is the one topResources gives for the input without these
\* entries, and topResources returns whenever every per-site entry that
\* has a resource host has its bugIds.
C20_HostlessEntrySkipped ==
  topTable.rendered
    => /\ \A k \in DOMAIN topTable.topResources :
            /\ topTable.topResources[k].host # NoHost
            /\ \A e \in topTable.topResources[k].entries :
                 getHostFromUrlPattern(e.urlPattern) # NoHost
       /\ [ok |-> topTable.ok, resources |-> topTable.topResources]
            = topResources(SelectSeq(topTable.entries, HasResourceHost),
                           topTable.minTopSiteCount)
       /\ (\A i \in DOMAIN topTable.entries :
             (HasTopLevelUrlPattern(topTable.entries[i]) /\ HasResourceHost(topTable.entries[i]))
               => topTable.entries[i].bugIds # NoBugIds)
            => topTable.ok

\* C20 witness: the input holds a per-site entry without a resource host
\* (and without bugIds), topResources returned and the result is not empty.
C20_Witness ==
  /\ topTable.rendered /\ topTable.ok
  /\ topTable.topResources # <<>>
  /\ \E i \in DOMAIN topTable.entries :
       /\ HasTopLevelUrlPattern(topTable.entries[i])
       /\ getHostFromUrlPattern(topTable.entries[i].urlPattern) = NoHost
       /\ topTable.entries[i].bugIds = NoBugIds

\* C21: when topResources has returned, every result has at least as many
\* distinct top-level sites as the result after it.
C21_OrderedBySiteCount ==
  (topTable.rendered /\ topTable.ok)
    => \A k \in DOMAIN topTable.topResources :
         k < Len(topTable.topResources)
           => Cardinality(topTable.topResources[k].topLevelSites)
                >= Cardinality(topTable.topResources[k + 1].topLevelSites)

\* C21 witness: the result holds two resources with different site counts,
\* and the one with more sites comes later in the input.
C21_Witness ==
  /\ topTable.rendered /\ topTable.ok
  /\ Len(topTable.topResources) = 2
  /\ Cardinality(topTable.topResources[1].topLevelSites) = 2
  /\ Cardinality(topTable.topResources[2].topLevelSites) = 1
  /\ topTable.entries[1] \in topTable.topResources[2].entries

C23_FirstDisplayIsReleaseFiltered ==
  \A t \in Tasks :
    task[t].kind = "init"
      => /\ task[t].pc \in {"records", "running", "done"} => task[t].versionInfo # "none"
         /\ (task[t].versionInfo = "ok" /\ task[t].filt # "idle")
              => /\ task[t].channel = "release"
                 /\ task[t].version = firefoxVersions[1].release

\* C23 amended: init issues the records fetch only after the version fetches
\* have settled, and when versions were obtained 'release' is selected
\* before that fetch; init's filter runs for the channel selected when the
\* records arrive, which is 'release' unless the user has changed the
\* channel filter in the meantime.
C23_FirstDisplayUsesSelectedChannel ==
  [][\A t \in Tasks :
       task[t].kind = "init"
         => /\ task'[t].pc \in {"records", "running", "done"} => task'[t].versionInfo # "none"
            /\ (task[t].pc = "versions" /\ task'[t].versionInfo = "ok")
                 => (filterFirefoxChannel' = "release" /\ task'[t].filt = "idle")
            /\ (task[t].versionInfo = "ok" /\ task[t].filt = "idle" /\ task'[t].filt # "idle")
                 => /\ task'[t].channel = filterFirefoxChannel
                    /\ filterFirefoxChannel = "release"
                         \/ \E u \in Tasks : task[u].kind = "filter"
                    /\ filterFirefoxChannel # ""
                         => /\ task'[t].version = firefoxVersions[1][filterFirefoxChannel]
                            /\ Len(task'[t].evalRes) = Len(records')
                    /\ (filterFirefoxChannel = "release" /\ task'[t].filt = "resolved")
                         => displayRecords'
                              = MatchingSublist(records', firefoxVersions[1].release)]_vars

\* C23 witness: init obtained the versions, filtered for the release
\* channel and its display leaves out a record of the fetched list.
C23_Witness ==
  \E t \in Tasks :
    /\ task[t].kind = "init" /\ task[t].versionInfo = "ok"
    /\ task[t].channel = "release" /\ task[t].filt = "resolved"
    /\ last.displayRecords = t
    /\ displayRecords = MatchingSublist(records, firefoxVersions[1].release)
    /\ Len(displayRecords) < Len(records)

\* C24: every step of a handleFirefoxVersionFilterChange invocation leaves
\* records, bugMeta, rsEnv, rsEnvUsePreview, firefoxVersions, loading and
\* error unchanged and issues no request; what it writes to displayRecords
\* is a sub-list of the records that were there when it started.
C24_FilterChangeFrame ==
  [][\A t \in Tasks :
       (task'[t].kind = "filter" /\ task'[t] # task[t])
         => /\ UNCHANGED <<records, bugMeta, rsEnv, rsEnvUsePreview, firefoxVersions,
                           loading, error>>
            /\ task'[t].requests = <<>> /\ task'[t].bug = "idle"
            /\ task'[t].pc \in {"running", "done"}
            /\ task'[t].recs = task'[t].pre.records
            /\ displayRecords' # displayRecords
                 => displayRecords' = CycleDisplay(task'[t])]_vars

\* C24 witness: a channel change has run to its end: it filtered the display
\* of two records down while records and the bug metadata stayed as they
\* were.
C24_Witness ==
  \E t \in Tasks :
    /\ task[t].kind = "filter" /\ task[t].pc = "done"
    /\ last.displayRecords = t
    /\ Len(task[t].evalRes) = 2
    /\ Len(displayRecords) < Len(records)
    /\ bugMeta # EmptyBugMeta /\ bugMeta = task[t].pre.bugMeta

\* C25: the step in which handleRSEnvChange starts its refresh cycle sets
\* rsEnvUsePreview to false when the dropdown changed and leaves rsEnv alone
\* when the checkbox changed, and in the state in which the cycle's records
\* fetch is issued rs_env and rs_preview equal rsEnv and rsEnvUsePreview.
C25_EnvChangeUpdatesUrl ==
  [][\A t \in Tasks :
       (task[t].kind = "none" /\ task'[t].kind = "env")
         => /\ task'[t].target = "rs-env" => rsEnvUsePreview' = FALSE
            /\ task'[t].target = "rs-env-preview" => rsEnv' = rsEnv
            /\ searchParams'.rs_env = rsEnv'
            /\ searchParams'.rs_preview = (IF rsEnvUsePreview' THEN "true" ELSE "false")
            /\ task'[t].pc = "records"
            /\ task'[t].env = rsEnv' /\ task'[t].preview = rsEnvUsePreview']_vars

\* C25 witness: the page was opened on a preview bucket, then the dropdown
\* changed the environment: the preview setting is off and the query
\* parameters name the new environment.
C25_Witness ==
  \E t \in Tasks, u \in Tasks :
    /\ task[t].kind = "init" /\ task[t].preview = TRUE /\ task[t].pc = "done"
    /\ task[u].kind = "env" /\ task[u].target = "rs-env" /\ task[u].pc = "records"
    /\ rsEnv # task[t].env /\ rsEnvUsePreview = FALSE
    /\ searchParams.rs_env = rsEnv /\ searchParams.rs_preview = "false"

\* Each record was modified no earlier than the record after it.
NewestFirst(recs) ==
  \A i \in DOMAIN recs :
    i < Len(recs) => recs[i].last_modified >= recs[i + 1].last_modified

\* sub holds records of full, in the order of full (the records of a list
\* are distinct).
IsOrderedSublist(sub, full) ==
  sub = SelectSeq(full, LAMBDA r : \E i \in DOMAIN sub : sub[i] = r)

CurrentFilterResult ==
  IF NoFilterSelected(filterFirefoxChannel, firefoxVersions)
  THEN records
  ELSE MatchingSublist(records, firefoxVersions[1][filterFirefoxChannel])

FilterResultOf(tk) ==
  IF tk.version = <<>> THEN tk.recs ELSE MatchingSublist(tk.recs, tk.version)

CycleInFlight(tk) == IsRefresh(tk) /\ ~tk.settled

\* C28: loading is true in every state in which a refresh cycle is still in
\* flight, also when a second cycle was started before the first settled.
C28_LoadingWhileCycleInFlight ==
  (\E t \in Tasks : CycleInFlight(task[t])) => loading

(***************************************************************************)
(* The page under the assumption that every network request and every      *)
(* expression evaluation eventually settles: each task's pending fetch or  *)
(* evaluation is eventually answered.  User actions are not forced.        *)
(***************************************************************************)
(* The page under the assumption that every network request and every      *)
(* expression evaluation eventually settles: each task's pending fetch or  *)
(* evaluation is eventually answered.  User actions are not forced.  The   *)
(* weak fairness of the records fetch and of the evaluations is written    *)
(* out with the condition under which the step is enabled.                 *)
(***************************************************************************)
RecordsPending(t) == task[t].pc = "records"
EvalPending(t) == task[t].pc = "running" /\ PendingEvals(task[t]) # {}

RequestsSettle ==
  \A t \in Tasks :
    /\ WF_vars(task[t].pc = "versions"
                 /\ \E resp \in VersionResponses : VersionsSettle(t, resp))
    /\ WF_vars(task[t].pc = "running" /\ task[t].bug = "pending"
                 /\ \E resp \in BugResponses : BugMetaSettle(t, resp))
    /\ \/ []<>(~RecordsPending(t))
       \/ []<><<\E status \in RecordStatuses : RecordsSettle(t, status)>>_vars
    /\ \/ []<>(~EvalPending(t))
       \/ []<><<\E i \in 1..MaxRecords : EvalSettle(t, i)>>_vars

SpecLive == Init /\ [][Next]_vars /\ RequestsSettle

\* The handler of cycle t has passed its finally block, and the state is as
\* the handler left it: not loading, error null after success and a
\* non-empty message after a failure.
CycleEnded(t) ==
  /\ task[t].settled
  /\ ~loading
  /\ IF task[t].failure = "none" THEN error = Null ELSE error \notin {Null, ""}

\* C29: when every request and every evaluation eventually settles, every
\* refresh cycle started by init or by an environment change eventually
\* ends with loading = false and with error null (success) or a non-empty
\* message (failure), also when cycles overlap.
C29_EveryCycleEnds ==
  \A t \in Tasks : CycleInFlight(task[t]) ~> CycleEnded(t)

\* C29 witness: two cycles overlapped, one failed and one succeeded, and
\* both have ended.
C29_Witness ==
  /\ \A t \in Tasks : IsRefresh(task[t]) /\ task[t].settled
  /\ task[2].pre.records = <<>> /\ task[1].recs # <<>>
  /\ task[1].failure # task[2].failure
  /\ "none" \in {task[1].failure, task[2].failure}
  /\ ~loading

(***************************************************************************)
(* The settings module on its own: the page is opened with any fx_channel  *)
(* parameter, and the channel filter is read from and written to the URL.  *)
(***************************************************************************)
\* type FirefoxChannel | null
FirefoxChannelOrNull == {Null} \cup Channels

\* Values of the fx_channel parameter: missing, empty, a channel, "esr", or
\* some other text.
FxChannelParams == {Null, "", "nightly", "beta", "release", "esr", "bogus"}

getFirefoxChannelFilter(params) ==
  LET firefoxChannel == params.fx_channel
  IN IF firefoxChannel = "" THEN Null
     ELSE IF firefoxChannel = Null
             \/ firefoxChannel \notin {"nightly", "beta", "release", "esr"}
     THEN "release"
     ELSE firefoxChannel

\* url.searchParams.set("fx_channel", filter ?? "")
setFirefoxChannelFilter(params, filter) ==
  [params EXCEPT !.fx_channel = IF filter = Null THEN "" ELSE filter]

InitSettings ==
  /\ PageNotLoaded
  /\ searchParams \in {[p EXCEPT !.fx_channel = c] :
                         p \in InitialSearchParams, c \in FxChannelParams}
  /\ channelFilter = NotRead
  /\ compared = NotCompared
  /\ topTable = NewTopTable

GetFirefoxChannelFilter ==
  /\ channelFilter' = getFirefoxChannelFilter(searchParams)
  /\ UNCHANGED <<rsEnv, rsEnvUsePreview, records, displayRecords, bugMeta, loading, error,
                 firefoxVersions, filterFirefoxChannel, connected, task, last, compared,
                 topTable, searchParams>>

SetFirefoxChannelFilter(filter) ==
  /\ searchParams' = setFirefoxChannelFilter(searchParams, filter)
  /\ UNCHANGED <<rsEnv, rsEnvUsePreview, records, displayRecords, bugMeta, loading, error,
                 firefoxVersions, filterFirefoxChannel, connected, task, last, compared,
                 topTable, channelFilter>>

NextSettings ==
  \/ GetFirefoxChannelFilter
  \/ \E filter \in FirefoxChannelOrNull : SetFirefoxChannelFilter(filter)

SpecSettings == InitSettings /\ [][NextSettings]_vars

\* C30: getFirefoxChannelFilter returns only null, 'nightly', 'beta' or
\* 'release' whatever the fx_channel parameter is (null for the empty
\* string, 'release' for a missing or unrecognized value), and reading the
\* filter after setFirefoxChannelFilter(f) gives f.
C30_ChannelFilterInRangeAndRoundTrips ==
  /\ channelFilter # NotRead => channelFilter \in FirefoxChannelOrNull
  /\ LET filter == getFirefoxChannelFilter(searchParams)
     IN /\ filter \in FirefoxChannelOrNull
        /\ searchParams.fx_channel = "" => filter = Null
        /\ searchParams.fx_channel \notin {""} \cup Channels => filter = "release"
  /\ \A f \in FirefoxChannelOrNull :
       getFirefoxChannelFilter(setFirefoxChannelFilter(searchParams, f)) = f

=============================================================================
